---- MODULE Spec2Model ----
(***************************************************************************)
(* Model of the ChessEngineWASM binding (chess engine WebAssembly wrapper). *)
(*                                                                         *)
(* The repository holds three generations of the wrapper class:            *)
(*   "buffer" : src/unnamed/part_000 lines 4-317   (scratch-buffer calls)   *)
(*   "script" : src/unnamed/part_000 lines 325-546 (direct string returns,  *)
(*              module loaded through a script tag)                         *)
(*   "import" : src/chess/web/chess_engine_wrapper.js (direct string        *)
(*              returns, module loaded through dynamic import)              *)
(* One behaviour of the model follows one generation (variable variant).   *)
(*                                                                         *)
(* Text is a sequence of one-character strings; native memory holds such   *)
(* characters and the terminator Nul.                                      *)
(***************************************************************************)
EXTENDS Integers, Sequences, FiniteSets, TLC

\* ---------------------------------------------------------------- bounds
\* Number of native module instances the factory may produce in one run.
MaxModules == 2
\* Number of loadModule calls that may be suspended at an await at once.
MaxPending == 1
\* Number of scratch regions that may be live in native memory at once.
MaxRegions == 2
\* Bytes of native memory modelled behind the end of a scratch region.
Slack == 2

\* ------------------------------------------------------ program constants
BestMoveBufferSize == 32
LegalMovesBufferSize == 4096
FenBufferSize == 128
DefaultDepth == 4

Variants == {"buffer", "script", "import"}

\* Status the wrapper of a generation reads as success (=== 0 or === 1).
SuccessCode(v) == IF v = "buffer" THEN 0 ELSE 1

\* Status values a native entry point may return.
NativeStatus == {-1, 0, 1}

\* ------------------------------------------------------------------ text
Nul == "NUL"
Filler == "?"

E2E4 == <<"e", "2", "e", "4">>
E7E8Q == <<"e", "7", "e", "8", "q">>
D2D4 == <<"d", "2", "d", "4">>
NoMove == <<"0", "0", "0", "0">>
Empty == <<>>

Files == {"a", "b", "c", "d", "e", "f", "g", "h"}
Ranks == {"1", "2", "3", "4", "5", "6", "7", "8"}
Promotions == {"q", "r", "b", "n"}

\* 4-5 character coordinate notation: file rank file rank [promotion].
WellFormedMove(t) ==
    /\ Len(t) \in {4, 5}
    /\ t[1] \in Files /\ t[2] \in Ranks
    /\ t[3] \in Files /\ t[4] \in Ranks
    /\ (Len(t) = 5 => t[5] \in Promotions)

\* ------------------------------------------------------------ host values
Null == [kind |-> "null"]
Undefined == [kind |-> "undefined"]
Bool(b) == [kind |-> "boolean", val |-> b]
Num(n) == [kind |-> "number", val |-> n]
Str(s) == [kind |-> "string", val |-> s]
List(l) == [kind |-> "array", val |-> l]

\* ------------------------------------------------- string helpers (host)
\* Index of the first element of s that is (is = TRUE) or is not (is = FALSE)
\* a member of chars, or Len(s) + 1 if there is none.
FirstIndex(s, chars, is) ==
    LET n == Len(s)
    IN  IF \E i \in 1..n : (s[i] \in chars) = is
        THEN CHOOSE i \in 1..n :
                 /\ (s[i] \in chars) = is
                 /\ \A j \in 1..(i - 1) : (s[j] \in chars) # is
        ELSE n + 1

WhiteSpace == {" ", "\t", "\n"}

\* String.prototype.trim
Trim(s) ==
    LET n == Len(s)
        a == FirstIndex(s, WhiteSpace, FALSE)
    IN  IF a > n THEN <<>>
        ELSE LET b == CHOOSE i \in a..n :
                          /\ s[i] \notin WhiteSpace
                          /\ \A j \in (i + 1)..n : s[j] \in WhiteSpace
             IN  SubSeq(s, a, b)

\* String.prototype.split(/\s+/): every maximal run of white space separates.
RECURSIVE SplitSpaces(_)
SplitSpaces(s) ==
    LET i == FirstIndex(s, WhiteSpace, TRUE)
    IN  IF i > Len(s) THEN <<s>>
        ELSE LET rest == SubSeq(s, i + 1, Len(s))
                 k == FirstIndex(rest, WhiteSpace, FALSE)
             IN  <<SubSeq(s, 1, i - 1)>> \o SplitSpaces(SubSeq(rest, k, Len(rest)))

\* String.prototype.split(","): every comma separates.
RECURSIVE SplitCommas(_)
SplitCommas(s) ==
    LET i == FirstIndex(s, {","}, TRUE)
    IN  IF i > Len(s) THEN <<s>>
        ELSE <<SubSeq(s, 1, i - 1)>> \o SplitCommas(SubSeq(s, i + 1, Len(s)))

\* Array.prototype.filter(Boolean) / filter((m) => m.length > 0) on strings.
FilterNonEmpty(l) == SelectSeq(l, LAMBDA t : Len(t) > 0)

\* ---------------------------------------------------------------- state
VARIABLES
    variant,        \* generation of the wrapper this run executes
    module,         \* this.module: 0 is null, m > 0 the m-th native module
    isReady,        \* this.isReady
    isInitialized,  \* this.isInitialized
    wrappers,       \* module the cwrap wrappers are bound to, 0 while null
    memHelpers,     \* this._malloc/_free: 0 null, -1 not functions, m bound
    decoder,        \* module captured by this._decodeCString, 0 while null
    mods,           \* native modules the factory has produced, by number
    fetching,       \* loadModule calls suspended at the script/import await
    instantiating,  \* loadModule calls suspended at the factory await
    regions,        \* scratch regions live in native memory (handles)
    nativeInit,     \* the module the wrappers are bound to had chess_init
                    \* succeed, with no chess_cleanup invoked on it since
    inFlight,       \* analyzePosition calls suspended at an await
    last            \* the most recent handler step and what it did

vars == <<variant, module, isReady, isInitialized, wrappers, memHelpers,
          decoder, mods, fetching, instantiating, regions, nativeInit,
          inFlight, last>>

binding == <<module, isReady, isInitialized, wrappers, memHelpers, decoder>>

\* What a module instance exports besides the engine entry points.
DecodeHelpers == {"UTF8ToString", "UTF8ArrayToString", "none"}
ModuleShapes == [hasMem : BOOLEAN, decode : DecodeHelpers]

\* A handler step: how it ended, what it gave back, which native functions
\* it invoked in order, what the native side answered (ok: its status meant
\* success to this generation; text: the token or payload as decoded), which
\* regions it acquired and released, and how far the decoder read (offset of
\* the last byte read, -1 if it read nothing) in a region of capacity cap.
Step(op, outcome, result, error, calls, native, acquired, released, maxRead, cap) ==
    [op |-> op, outcome |-> outcome, result |-> result, error |-> error,
     calls |-> calls, native |-> native,
     acquired |-> acquired, released |-> released,
     maxRead |-> maxRead, cap |-> cap]

Answer(ok, text) == [ok |-> ok, text |-> text]
NoAnswer == Answer(FALSE, <<>>)

Return(op, result, calls, native) ==
    Step(op, "return", result, "", calls, native, {}, {}, -1, 0)

Throw(op, error, calls) ==
    Step(op, "throw", Undefined, error, calls, NoAnswer, {}, {}, -1, 0)

Pending(op) ==
    Step(op, "pending", Undefined, "", <<>>, NoAnswer, {}, {}, -1, 0)

\* loadModule's catch block: the error is logged and false is returned.
LoadFailed(error) ==
    Step("loadModule", "return", Bool(FALSE), error, <<>>, NoAnswer, {}, {}, -1, 0)

Init ==
    /\ variant \in Variants
    /\ module = 0
    /\ isReady = FALSE
    /\ isInitialized = FALSE
    /\ wrappers = 0
    /\ memHelpers = 0
    /\ decoder = 0
    /\ mods = <<>>
    /\ fetching = 0
    /\ instantiating = 0
    /\ regions = {}
    /\ nativeInit = FALSE
    /\ inFlight = {}
    /\ last = Return("constructor", Undefined, <<>>, NoAnswer)

\* ------------------------------------------------- lifecycle: loadModule
\* Shapes of module the factory can hand to a generation. The direct-return
\* generations never look at the memory or decoding exports.
ShapesFor(v) ==
    IF v = "buffer" THEN ModuleShapes
    ELSE {[hasMem |-> TRUE, decode |-> "UTF8ToString"]}

\* loadModule up to its first await (the script tag / the dynamic import).
LoadModule ==
    /\ fetching + instantiating < MaxPending
    /\ Len(mods) + fetching + instantiating < MaxModules
    /\ fetching' = fetching + 1
    /\ last' = Pending("loadModule")
    /\ UNCHANGED <<variant, binding, mods, instantiating, regions, nativeInit,
                   inFlight>>

\* The script (or import) settles: on success the factory is looked up and
\* called, and loadModule suspends again on the factory's promise.
ScriptSettles ==
    /\ fetching > 0
    /\ fetching' = fetching - 1
    /\ \E o \in {"fetchError", "noFactory", "ok"} :
          IF o = "ok"
          THEN /\ instantiating' = instantiating + 1
               /\ last' = Pending("loadModule")
          ELSE /\ instantiating' = instantiating
               /\ last' = LoadFailed(o)
    /\ UNCHANGED <<variant, binding, mods, regions, nativeInit, inFlight>>

\* setupFunctionWrappers on module m of shape sh: the fields it leaves
\* behind and whether it threw.
setupFunctionWrappers(m, sh) ==
    IF variant = "buffer"
    THEN IF sh.hasMem
         THEN [wrappers |-> m, memHelpers |-> m, decoder |-> m, threw |-> FALSE]
         ELSE [wrappers |-> m, memHelpers |-> -1, decoder |-> decoder,
               threw |-> TRUE]
    ELSE [wrappers |-> m, memHelpers |-> memHelpers, decoder |-> decoder,
          threw |-> FALSE]

\* loadModule after the factory's promise resolved with module m.
loadModuleResume(m, sh) ==
    LET b == setupFunctionWrappers(m, sh)
    IN  [module |-> m, wrappers |-> b.wrappers, memHelpers |-> b.memHelpers,
         decoder |-> b.decoder,
         isReady |-> IF b.threw THEN isReady ELSE TRUE,
         step |-> IF b.threw THEN LoadFailed("noMemoryHelpers")
                  ELSE Return("loadModule", Bool(TRUE), <<>>, NoAnswer)]

\* The factory's promise settles: rejected, or resolved with a new module.
InstantiateSettles ==
    /\ instantiating > 0
    /\ instantiating' = instantiating - 1
    /\ \/ /\ last' = LoadFailed("instantiateError")
          /\ UNCHANGED <<binding, mods, nativeInit>>
       \/ /\ Len(mods) < MaxModules
          /\ \E sh \in ShapesFor(variant) :
                LET m == Len(mods) + 1
                    r == loadModuleResume(m, sh)
                IN  /\ mods' = Append(mods, sh)
                    /\ module' = r.module
                    /\ wrappers' = r.wrappers
                    /\ memHelpers' = r.memHelpers
                    /\ decoder' = r.decoder
                    /\ isReady' = r.isReady
                    /\ last' = r.step
                    /\ nativeInit' = (r.wrappers = wrappers /\ nativeInit)
          /\ UNCHANGED isInitialized
    /\ UNCHANGED <<variant, fetching, regions, inFlight>>

\* ---------------------------------------------- lifecycle: init, cleanup
\* What a native entry point that returns a status may do.
StatusAnswers == [raises : BOOLEAN, status : NativeStatus]

\* initBuffer without the check that the module is loaded.
initBufferUnchecked(nat) ==
    IF nat.raises
    THEN [step |-> Throw("init", "NativeError", <<"chess_init">>),
          isInitialized |-> isInitialized]
    ELSE IF nat.status # 0
    THEN [step |-> Return("init", Bool(FALSE), <<"chess_init">>,
                          Answer(FALSE, <<>>)),
          isInitialized |-> isInitialized]
    ELSE [step |-> Return("init", Bool(TRUE), <<"chess_init">>,
                          Answer(TRUE, <<>>)),
          isInitialized |-> TRUE]

\* init() of the buffer generation (the flag is only ever set).
initBuffer(nat) ==
    IF ~isReady THEN [step |-> Throw("init", "NotLoaded", <<>>),
                      isInitialized |-> isInitialized]
    ELSE IF nat.raises
    THEN [step |-> Throw("init", "NativeError", <<"chess_init">>),
          isInitialized |-> isInitialized]
    ELSE IF nat.status # 0
    THEN [step |-> Return("init", Bool(FALSE), <<"chess_init">>,
                          Answer(FALSE, <<>>)),
          isInitialized |-> isInitialized]
    ELSE [step |-> Return("init", Bool(TRUE), <<"chess_init">>,
                          Answer(TRUE, <<>>)),
          isInitialized |-> TRUE]

\* init() of the direct-return generations (the flag is assigned).
initDirect(nat) ==
    IF ~isReady THEN [step |-> Throw("init", "NotLoaded", <<>>),
                      isInitialized |-> isInitialized]
    ELSE IF nat.raises
    THEN [step |-> Throw("init", "NativeError", <<"chess_init">>),
          isInitialized |-> isInitialized]
    ELSE [step |-> Return("init", Bool(nat.status = 1), <<"chess_init">>,
                          Answer(nat.status = 1, <<>>)),
          isInitialized |-> (nat.status = 1)]

InitEngine ==
    /\ \E nat \in StatusAnswers :
          LET r == IF variant = "buffer" THEN initBuffer(nat) ELSE initDirect(nat)
          IN  /\ isInitialized' = r.isInitialized
              /\ last' = r.step
              /\ nativeInit' = IF r.step.outcome = "return" /\ r.step.native.ok
                               THEN TRUE ELSE nativeInit
    /\ UNCHANGED <<variant, module, isReady, wrappers, memHelpers, decoder,
                   mods, fetching, instantiating, regions, inFlight>>

\* cleanup(): raises is whether the native teardown raises.
cleanup(raises) ==
    IF isInitialized /\ wrappers # 0
    THEN IF raises
         THEN [step |-> Throw("cleanup", "NativeError", <<"chess_cleanup">>),
               isInitialized |-> isInitialized]
         ELSE [step |-> Return("cleanup", Undefined, <<"chess_cleanup">>,
                               Answer(TRUE, <<>>)),
               isInitialized |-> FALSE]
    ELSE [step |-> Return("cleanup", Undefined, <<>>, NoAnswer),
          isInitialized |-> isInitialized]

Cleanup ==
    /\ \E raises \in BOOLEAN :
          LET r == cleanup(raises)
          IN  /\ isInitialized' = r.isInitialized
              /\ last' = r.step
              /\ nativeInit' = IF r.step.calls # <<>>
                               THEN FALSE ELSE nativeInit
    /\ UNCHANGED <<variant, module, isReady, wrappers, memHelpers, decoder,
                   mods, fetching, instantiating, regions, inFlight>>

\* ------------------------------------------ call surface: status wrappers
StartFen == "rnbqkbnr/pppppppp/8/8/8/8/PPPPPPPP/RNBQKBNR w KQkq - 0 1"
Fens == {StartFen, "not a fen"}
MoveInputs == {E2E4, E7E8Q, <<"z", "z">>}
Depths == {1, DefaultDepth}
EvalScores == {-120, 0, 35}

\* StatusCall without the state check.
StatusCallUnchecked(op, fn, success, nat) ==
    IF nat.raises THEN Throw(op, "NativeError", <<fn>>)
    ELSE Return(op, Bool(nat.status = success), <<fn>>,
                Answer(nat.status = success, <<>>))

\* An operation that returns `status === success` of one native call.
StatusCall(op, fn, success, nat) ==
    IF ~isInitialized THEN Throw(op, "EngineNotReady", <<>>)
    ELSE IF nat.raises THEN Throw(op, "NativeError", <<fn>>)
    ELSE Return(op, Bool(nat.status = success), <<fn>>,
                Answer(nat.status = success, <<>>))

setPosition(fen, nat) ==
    StatusCall("setPosition", "chess_set_position", SuccessCode(variant), nat)

makeMove(move, nat) ==
    StatusCall("makeMove", "chess_make_move", SuccessCode(variant), nat)

undoMove(nat) ==
    StatusCall("undoMove", "chess_undo_move", SuccessCode(variant), nat)

isCheckmate(nat) == StatusCall("isCheckmate", "chess_is_checkmate", 1, nat)

isStalemate(nat) == StatusCall("isStalemate", "chess_is_stalemate", 1, nat)

isInCheck(nat) == StatusCall("isInCheck", "chess_is_in_check", 1, nat)

\* evaluatePosition(): the raw integer, not reinterpreted.
evaluatePosition(raises, score) ==
    IF ~isInitialized THEN Throw("evaluatePosition", "EngineNotReady", <<>>)
    ELSE IF raises
    THEN Throw("evaluatePosition", "NativeError", <<"chess_evaluate_position">>)
    ELSE Return("evaluatePosition", Num(score), <<"chess_evaluate_position">>,
                Answer(TRUE, <<>>))

\* Finish, had a throwing operation dropped the engine out of Initialized.
FinishResetting(step) ==
    /\ last' = step
    /\ regions' = (regions \cup step.acquired) \ step.released
    /\ isInitialized' = (isInitialized /\ step.outcome # "throw")
    /\ UNCHANGED <<variant, module, isReady, wrappers, memHelpers, decoder,
                   mods, fetching, instantiating, nativeInit, inFlight>>

\* A call-surface step changes nothing but the live regions and `last`.
Finish(step) ==
    /\ last' = step
    /\ regions' = (regions \cup step.acquired) \ step.released
    /\ UNCHANGED <<variant, binding, mods, fetching, instantiating, nativeInit,
                   inFlight>>

SetPosition ==
    \E fen \in Fens, nat \in StatusAnswers : Finish(setPosition(fen, nat))

MakeMove ==
    \E move \in MoveInputs, nat \in StatusAnswers : Finish(makeMove(move, nat))

UndoMove == \E nat \in StatusAnswers : Finish(undoMove(nat))

IsCheckmate == \E nat \in StatusAnswers : Finish(isCheckmate(nat))

IsStalemate == \E nat \in StatusAnswers : Finish(isStalemate(nat))

IsInCheck == \E nat \in StatusAnswers : Finish(isInCheck(nat))

EvaluatePosition ==
    \E raises \in BOOLEAN, score \in EvalScores :
        Finish(evaluatePosition(raises, score))

\* ------------------------------------------------ native memory and text
\* What the native side may do on a buffer-strategy call: whether the
\* allocator returned a region (ptrOk), whether the entry point raised, its
\* status, the bytes it wrote (text), whether it wrote a terminator after
\* them (nul), and whether the memory it did not write is non-zero (dirty).
\* A text that fills a region of capacity cap.
Fill(cap) == [i \in 1..cap |-> "a"] \o <<>>

Wr(ptrOk, raises, status, text, nul, dirty) ==
    [ptrOk |-> ptrOk, raises |-> raises, status |-> status, text |-> text,
     nul |-> nul, dirty |-> dirty]

\* The allocator fails; the entry point raises; the entry point returns a
\* status after writing a terminated text; or it returns status 0 having
\* filled the region to its capacity, leaving no terminator in it.
Writes(cap, texts) ==
    {Wr(FALSE, FALSE, 0, Empty, TRUE, FALSE), Wr(TRUE, TRUE, 0, Empty, TRUE, FALSE)}
    \cup {Wr(TRUE, FALSE, st, t, TRUE, d) :
              st \in NativeStatus, t \in texts, d \in BOOLEAN}
    \cup {Wr(TRUE, FALSE, 0, Fill(cap), FALSE, TRUE)}

\* What the native side may do on a direct-return call: the adapter hands
\* back the text already decoded.
Replies(texts) == [raises : BOOLEAN, text : texts]

\* Byte at offset i - 1 from the region's handle after the native call wrote
\* len bytes of text. The modelled memory ends Slack bytes behind the region
\* with a zero byte.
HeapByte(cap, w, len, i) ==
    IF i <= len THEN w.text[i]
    ELSE IF i = len + 1 /\ w.nul THEN Nul
    ELSE IF i = cap + Slack + 1 THEN Nul
    ELSE IF w.dirty THEN Filler ELSE Nul

\* Module.UTF8ToString(ptr) / Module.UTF8ArrayToString(HEAPU8, ptr): reads
\* bytes from the handle up to the first zero byte; no length is passed.
UTF8ToString(cap, w) ==
    LET len == Len(w.text)
        n == CHOOSE i \in 1..(cap + Slack + 1) :
                 /\ HeapByte(cap, w, len, i) = Nul
                 /\ \A j \in 1..(i - 1) : HeapByte(cap, w, len, j) # Nul
    IN  [text |-> [k \in 1..(n - 1) |-> HeapByte(cap, w, len, k)] \o <<>>,
         maxRead |-> n - 1]

\* The scratch capacities of the buffer generation and the payloads the
\* engine writes into each.
MoveTexts == {E2E4, E7E8Q, NoMove, Empty}

\* Payloads of chess_get_legal_moves: white-space separated for the buffer
\* generation, comma separated for the direct-return generations.
SpacedTexts ==
    {Empty, E2E4, E2E4 \o <<" ">> \o D2D4,
     <<" ">> \o E2E4 \o <<" ", "\n">> \o D2D4 \o <<" ">>, <<" ", " ">>}

CommaTexts ==
    {Empty, E2E4, E2E4 \o <<",">> \o D2D4,
     <<",">> \o E2E4 \o <<",", ",">> \o D2D4 \o <<",">>, <<",">>}

\* A position descriptor as the engine prints it (a short stand-in).
SomeFen == <<"8", "/", "8", " ", "w">>
FenTexts == {SomeFen, Empty}

Capacities == {BestMoveBufferSize, LegalMovesBufferSize, FenBufferSize}

PayloadsAt(cap) ==
    IF cap = BestMoveBufferSize THEN MoveTexts
    ELSE IF cap = LegalMovesBufferSize THEN SpacedTexts
    ELSE FenTexts

NativeWrites == [cap \in Capacities |-> Writes(cap, PayloadsAt(cap))]

\* UTF8ToString on the memory each native write leaves, evaluated once.
Decoded ==
    [cap \in Capacities |-> [w \in NativeWrites[cap] |-> UTF8ToString(cap, w)]]

\* this._decodeCString(ptr) on the memory left by w.
decodeCString(ptr, cap, w) ==
    IF ptr = 0 THEN [threw |-> FALSE, text |-> <<>>, maxRead |-> -1]
    ELSE IF mods[decoder].decode \in {"UTF8ToString", "UTF8ArrayToString"}
    THEN LET d == Decoded[cap][w]
         IN  [threw |-> FALSE, text |-> d.text, maxRead |-> d.maxRead]
    ELSE [threw |-> TRUE, text |-> <<>>, maxRead |-> -1]

\* splitSpaced without the trim, the blank test and the filter.
splitSpacedOnly(text) == SplitSpaces(text)

\* getLegalMoves, lines 232-237: trim, then split on runs of white space.
splitSpaced(text) ==
    LET movesStr == Trim(text)
    IN  IF movesStr = <<>> THEN <<>> ELSE FilterNonEmpty(SplitSpaces(movesStr))

\* splitSpaced on the text decoded after each native write, evaluated once.
SplitDecoded ==
    [w \in NativeWrites[LegalMovesBufferSize] |->
        splitSpaced(Decoded[LegalMovesBufferSize][w].text)]

\* The handle _malloc returns when it succeeds: an address not in use.
FreshPtr == CHOOSE p \in 1..(MaxRegions + 1) : p \notin regions

\* this._malloc(size): a fresh handle, or the null handle 0.
Malloc(w) == IF w.ptrOk THEN FreshPtr ELSE 0

\* ------------------------------------------ call surface: string results
\* How the try block of a buffer-strategy call on region ptr ended, after
\* invoking entry point fn: the region (if the handle is not null) is
\* acquired and not yet released.
Tried(op, outcome, result, error, fn, native, ptr, maxRead, cap) ==
    Step(op, outcome, result, error, <<"_malloc", fn>>, native, {ptr} \ {0},
         {}, maxRead, cap)

\* The release written as the last statement of the try block instead: it
\* is skipped when the block throws.
freeAtEndOfTry(ptr, st) ==
    IF st.outcome = "throw" THEN st
    ELSE [st EXCEPT !.calls = Append(@, "_free"), !.released = @ \cup {ptr}]

\* finally { this._free(bufferPtr); }: runs however the try block ended.
finallyFree(ptr, st) ==
    [st EXCEPT !.calls = Append(@, "_free"), !.released = @ \cup {ptr}]

\* Acquire without the test of the handle _malloc returned.
AcquireUnchecked(op, w) ==
    IF ~isInitialized THEN <<Throw(op, "EngineNotReady", <<>>)>>
    ELSE IF memHelpers <= 0 THEN <<Throw(op, "TypeError", <<>>)>>
    ELSE <<>>

\* Entry of a buffer-strategy operation: the state check, then _malloc.
\* Gives the step that ends the call early, or none.
Acquire(op, w) ==
    IF ~isInitialized THEN <<Throw(op, "EngineNotReady", <<>>)>>
    ELSE IF memHelpers <= 0 THEN <<Throw(op, "TypeError", <<>>)>>
    ELSE IF ~w.ptrOk THEN <<Throw(op, "AllocationFailed", <<"_malloc">>)>>
    ELSE <<>>

\* getBestMove: the try block on region ptr.
tryGetBestMove(ptr, depth, w) ==
    LET op == "getBestMove"
        cap == BestMoveBufferSize
        fn == "chess_get_best_move"
    IN  IF w.raises
        THEN Tried(op, "throw", Undefined, "NativeError", fn, NoAnswer, ptr, -1, cap)
        ELSE IF w.status # 0
        THEN Tried(op, "return", Null, "", fn, Answer(FALSE, <<>>), ptr, -1, cap)
        ELSE LET d == decodeCString(ptr, cap, w)
             IN  IF d.threw
                 THEN Tried(op, "throw", Undefined, "DecodingUnavailable", fn,
                            Answer(TRUE, <<>>), ptr, -1, cap)
                 ELSE Tried(op, "return",
                            IF d.text # <<>> /\ d.text # NoMove
                            THEN Str(d.text) ELSE Null,
                            "", fn, Answer(TRUE, d.text), ptr, d.maxRead, cap)

\* getBestMove(depth) of the buffer generation.
getBestMoveBuffer(depth, w) ==
    LET early == Acquire("getBestMove", w)
    IN  IF early # <<>> THEN early[1]
        ELSE finallyFree(Malloc(w), tryGetBestMove(Malloc(w), depth, w))

\* getBestMoveDirect without the translation of the "0000" sentinel.
getBestMoveDirectLiteral(depth, r) ==
    LET op == "getBestMove"
    IN  IF ~isInitialized THEN Throw(op, "EngineNotReady", <<>>)
        ELSE IF r.raises THEN Throw(op, "NativeError", <<"chess_get_best_move">>)
        ELSE Return(op, IF r.text # <<>> THEN Str(r.text) ELSE Null,
                    <<"chess_get_best_move">>, Answer(TRUE, r.text))

\* getBestMove(depth) of the direct-return generations.
getBestMoveDirect(depth, r) ==
    LET op == "getBestMove"
    IN  IF ~isInitialized THEN Throw(op, "EngineNotReady", <<>>)
        ELSE IF r.raises THEN Throw(op, "NativeError", <<"chess_get_best_move">>)
        ELSE Return(op,
                    IF r.text # <<>> /\ r.text # NoMove THEN Str(r.text) ELSE Null,
                    <<"chess_get_best_move">>, Answer(TRUE, r.text))

GetBestMove ==
    /\ Cardinality(regions) < MaxRegions
    /\ \E depth \in Depths :
          IF variant = "buffer"
          THEN \E w \in NativeWrites[BestMoveBufferSize] :
                   Finish(getBestMoveBuffer(depth, w))
          ELSE \E r \in Replies(MoveTexts) : Finish(getBestMoveDirect(depth, r))


\* getLegalMoves: the try block on region ptr.
tryGetLegalMoves(ptr, w) ==
    LET op == "getLegalMoves"
        cap == LegalMovesBufferSize
        fn == "chess_get_legal_moves"
    IN  IF w.raises
        THEN Tried(op, "throw", Undefined, "NativeError", fn, NoAnswer, ptr, -1, cap)
        ELSE IF w.status < 0
        THEN Tried(op, "return", List(<<>>), "", fn, Answer(FALSE, <<>>), ptr,
                   -1, cap)
        ELSE LET d == decodeCString(ptr, cap, w)
             IN  IF d.threw
                 THEN Tried(op, "throw", Undefined, "DecodingUnavailable", fn,
                            Answer(TRUE, <<>>), ptr, -1, cap)
                 ELSE Tried(op, "return", List(SplitDecoded[w]), "", fn,
                            Answer(TRUE, d.text), ptr, d.maxRead, cap)

\* getLegalMoves() of the buffer generation.
getLegalMovesBuffer(w) ==
    LET early == Acquire("getLegalMoves", w)
    IN  IF early # <<>> THEN early[1]
        ELSE finallyFree(Malloc(w), tryGetLegalMoves(Malloc(w), w))

\* getLegalMoves() of the direct-return generations.
getLegalMovesDirect(r) ==
    LET op == "getLegalMoves"
    IN  IF ~isInitialized THEN Throw(op, "EngineNotReady", <<>>)
        ELSE IF r.raises
        THEN Throw(op, "NativeError", <<"chess_get_legal_moves">>)
        ELSE Return(op,
                    IF r.text # <<>>
                    THEN List(FilterNonEmpty(SplitCommas(r.text)))
                    ELSE List(<<>>),
                    <<"chess_get_legal_moves">>, Answer(TRUE, r.text))

GetLegalMoves ==
    /\ Cardinality(regions) < MaxRegions
    /\ IF variant = "buffer"
       THEN \E w \in NativeWrites[LegalMovesBufferSize] :
                Finish(getLegalMovesBuffer(w))
       ELSE \E r \in Replies(CommaTexts) : Finish(getLegalMovesDirect(r))

\* getCurrentFen: the try block on region ptr.
tryGetCurrentFen(ptr, w) ==
    LET op == "getCurrentFen"
        cap == FenBufferSize
        fn == "chess_get_fen"
    IN  IF w.raises
        THEN Tried(op, "throw", Undefined, "NativeError", fn, NoAnswer, ptr, -1, cap)
        ELSE IF w.status # 0
        THEN Tried(op, "return", Str(<<>>), "", fn, Answer(FALSE, <<>>), ptr,
                   -1, cap)
        ELSE LET d == decodeCString(ptr, cap, w)
             IN  IF d.threw
                 THEN Tried(op, "throw", Undefined, "DecodingUnavailable", fn,
                            Answer(TRUE, <<>>), ptr, -1, cap)
                 ELSE Tried(op, "return", Str(d.text), "", fn,
                            Answer(TRUE, d.text), ptr, d.maxRead, cap)

\* getCurrentFen() of the buffer generation.
getCurrentFenBuffer(w) ==
    LET early == Acquire("getCurrentFen", w)
    IN  IF early # <<>> THEN early[1]
        ELSE finallyFree(Malloc(w), tryGetCurrentFen(Malloc(w), w))

\* getCurrentFen() of the direct-return generations.
getCurrentFenDirect(r) ==
    LET op == "getCurrentFen"
    IN  IF ~isInitialized THEN Throw(op, "EngineNotReady", <<>>)
        ELSE IF r.raises THEN Throw(op, "NativeError", <<"chess_get_fen">>)
        ELSE Return(op, Str(r.text), <<"chess_get_fen">>, Answer(TRUE, r.text))

GetCurrentFen ==
    /\ Cardinality(regions) < MaxRegions
    /\ IF variant = "buffer"
       THEN \E w \in NativeWrites[FenBufferSize] :
                Finish(getCurrentFenBuffer(w))
       ELSE \E r \in Replies(FenTexts) : Finish(getCurrentFenDirect(r))

\* ------------------------------------------------------- analyzePosition
\* AnalysisCalls with the evaluation read before the best move.
AnalysisCallsEvaluationFirst ==
    <<"setPosition", "evaluatePosition", "getBestMove", "getLegalMoves",
      "isCheckmate", "isStalemate", "isInCheck", "getCurrentFen">>

\* The calls analyzePosition makes, in the order its body evaluates them;
\* the last one is made while the report literal is being built.
AnalysisCalls ==
    <<"setPosition", "getBestMove", "evaluatePosition", "getLegalMoves",
      "isCheckmate", "isStalemate", "isInCheck", "getCurrentFen">>

\* AnalysisAwaits had the body awaited the best move.
AnalysisAwaitsBestMove == {"getBestMove"}

\* The calls after which analyzePosition awaits, giving up the event loop:
\* its body holds no await expression.
AnalysisAwaits == {}

\* error.message of what a call threw.
Message(s) ==
    IF s.error = "EngineNotReady" THEN "Engine not initialized"
    ELSE IF s.error = "AllocationFailed"
    THEN IF s.op = "getBestMove"
         THEN "Failed to allocate memory for best move buffer"
         ELSE IF s.op = "getLegalMoves"
         THEN "Failed to allocate memory for legal moves buffer"
         ELSE "Failed to allocate memory for FEN buffer"
    ELSE IF s.error = "DecodingUnavailable"
    THEN "UTF-8 decoding helpers are unavailable"
    ELSE IF s.error = "TypeError" THEN "this._malloc is not a function"
    ELSE "native exception"

\* The keys of a report, and a report holding the keys of f.
ReportKeys ==
    {"error", "success", "bestMove", "evaluation", "legalMoves", "moveCount",
     "gameState", "depth", "fen"}

Report(f) ==
    [kind |-> "report", keys |-> DOMAIN f,
     fields |-> [k \in ReportKeys |-> IF k \in DOMAIN f THEN f[k] ELSE Undefined]]

\* The positions the engine may hold once chess_set_position accepted the
\* descriptor, each with what the query entry points say about it: an
\* ordinary position, a checkmate and a stalemate.
Positions ==
    {[best |-> E2E4, score |-> 35, spaced |-> E2E4 \o <<" ">> \o D2D4,
      comma |-> E2E4 \o <<",">> \o D2D4, mate |-> 0, stale |-> 0, check |-> 0],
     [best |-> NoMove, score |-> -120, spaced |-> Empty, comma |-> Empty,
      mate |-> 1, stale |-> 0, check |-> 1],
     [best |-> Empty, score |-> 0, spaced |-> <<" ", " ">>, comma |-> <<",">>,
      mate |-> 0, stale |-> 1, check |-> 0]}

NoPosition == CHOOSE p \in Positions : p.mate = 1

\* What the native side may answer to each call of an analysis of position
\* pos: a fault, or what holds of pos. chess_set_position may also reject
\* the descriptor, and picks the position when it accepts.
SetAnswers ==
    {[raises |-> TRUE, status |-> 0, position |-> NoPosition],
     [raises |-> FALSE, status |-> 1 - SuccessCode(variant),
      position |-> NoPosition]}
    \cup {[raises |-> FALSE, status |-> SuccessCode(variant), position |-> p] :
              p \in Positions}

AnalysisWrites(text) ==
    {Wr(FALSE, FALSE, 0, Empty, TRUE, FALSE), Wr(TRUE, TRUE, 0, Empty, TRUE, FALSE),
     Wr(TRUE, FALSE, 0, text, TRUE, FALSE)}

AnalysisReplies(text) ==
    {[raises |-> TRUE, text |-> text], [raises |-> FALSE, text |-> text]}

AnalysisFlag(flag) ==
    {[raises |-> TRUE, status |-> 0], [raises |-> FALSE, status |-> flag]}

StageAnswers(name, pos) ==
    IF name = "setPosition" THEN SetAnswers
    ELSE IF name = "getBestMove"
    THEN IF variant = "buffer" THEN AnalysisWrites(pos.best)
         ELSE AnalysisReplies(pos.best)
    ELSE IF name = "evaluatePosition" THEN {<<TRUE, 0>>, <<FALSE, pos.score>>}
    ELSE IF name = "getLegalMoves"
    THEN IF variant = "buffer" THEN AnalysisWrites(pos.spaced)
         ELSE AnalysisReplies(pos.comma)
    ELSE IF name = "isCheckmate" THEN AnalysisFlag(pos.mate)
    ELSE IF name = "isStalemate" THEN AnalysisFlag(pos.stale)
    ELSE IF name = "isInCheck" THEN AnalysisFlag(pos.check)
    ELSE IF variant = "buffer" THEN AnalysisWrites(SomeFen)
    ELSE AnalysisReplies(SomeFen)

\* this.<name>(...) as analyzePosition calls it, the native side answering a.
stage(name, fen, depth, a) ==
    IF name = "setPosition" THEN setPosition(fen, a)
    ELSE IF name = "getBestMove"
    THEN IF variant = "buffer" THEN getBestMoveBuffer(depth, a)
         ELSE getBestMoveDirect(depth, a)
    ELSE IF name = "evaluatePosition" THEN evaluatePosition(a[1], a[2])
    ELSE IF name = "getLegalMoves"
    THEN IF variant = "buffer" THEN getLegalMovesBuffer(a)
         ELSE getLegalMovesDirect(a)
    ELSE IF name = "isCheckmate" THEN isCheckmate(a)
    ELSE IF name = "isStalemate" THEN isStalemate(a)
    ELSE IF name = "isInCheck" THEN isInCheck(a)
    ELSE IF variant = "buffer" THEN getCurrentFenBuffer(a)
    ELSE getCurrentFenDirect(a)

\* A run of analyzePosition about to make call k, with what it did so far.
\* Whether the descriptor is accepted is the native side's answer, so one
\* descriptor stands for all; depth is left to its default.
NewRuns ==
    {[k |-> 1, fen |-> StartFen, depth |-> depth, position |-> NoPosition,
      calls |-> <<>>, acquired |-> {}, released |-> {}, native |-> NoAnswer,
      results |-> <<>>] : depth \in {DefaultDepth}}

\* The run after call s ended with the native side answering a; `native`
\* keeps what set_position answered and `position` what it set.
advance(run, s, a) ==
    [run EXCEPT !.k = @ + 1, !.calls = @ \o s.calls,
                !.acquired = @ \cup s.acquired,
                !.released = @ \cup s.released,
                !.native = IF s.op = "setPosition" THEN s.native ELSE @,
                !.position = IF s.op = "setPosition" THEN a.position ELSE @,
                !.results = Append(@, s.result)]

\* The step of analyzePosition that resolves its promise with report f;
\* error names the fault it caught, if any.
Resolved(run, error, f) ==
    Step("analyzePosition", "return", Report(f), error, run.calls, run.native,
         run.acquired, run.released, -1, 0)

\* The value the run took from call name.
resultOf(run, name) ==
    run.results[CHOOSE i \in 1..Len(AnalysisCalls) : AnalysisCalls[i] = name]

\* rejects with the test of setPosition's result left out.
rejectsNever(s) == FALSE

\* if (!this.setPosition(fen)) return { error: "Invalid FEN position" };
rejects(s) == s.op = "setPosition" /\ s.result = Bool(FALSE)

invalidFen(run) == Resolved(run, "", [error |-> Str("Invalid FEN position")])

\* caught without the catch block: the fault leaves analyzePosition.
uncaught(run, s) ==
    Step("analyzePosition", "throw", Undefined, s.error, run.calls, run.native,
         run.acquired, run.released, -1, 0)

\* caught, had the catch block passed EngineNotReady on to the caller.
caughtUnlessNotReady(run, s) ==
    IF s.error = "EngineNotReady"
    THEN Step("analyzePosition", "throw", Undefined, s.error, run.calls,
              run.native, run.acquired, run.released, -1, 0)
    ELSE Resolved(run, s.error, [error |-> Str(Message(s))])

\* catch (error) { return { error: error.message }; }
caught(run, s) == Resolved(run, s.error, [error |-> Str(Message(s))])

\* return { success: true, bestMove, ... }
assemble(run) ==
    Resolved(run, "",
        [success |-> Bool(TRUE),
         bestMove |-> resultOf(run, "getBestMove"),
         evaluation |-> resultOf(run, "evaluatePosition"),
         legalMoves |-> resultOf(run, "getLegalMoves"),
         moveCount |-> Num(Len(resultOf(run, "getLegalMoves").val)),
         gameState |-> [kind |-> "object",
                        isCheckmate |-> resultOf(run, "isCheckmate"),
                        isStalemate |-> resultOf(run, "isStalemate"),
                        isInCheck |-> resultOf(run, "isInCheck")],
         depth |-> Num(run.depth),
         fen |-> resultOf(run, "getCurrentFen")])

\* The run ends: its promise resolves (or rejects) with the step's result.
Settle(step, from) ==
    /\ last' = step
    /\ regions' = (regions \cup step.acquired) \ step.released
    /\ inFlight' = inFlight \ {from}
    /\ UNCHANGED <<variant, binding, mods, fetching, instantiating, nativeInit>>

\* The run awaits: other callbacks of the event loop run before it resumes.
Suspend(run, from) ==
    /\ last' = Pending("analyzePosition")
    /\ regions' = (regions \cup run.acquired) \ run.released
    /\ inFlight' = (inFlight \ {from}) \cup {run}
    /\ UNCHANGED <<variant, binding, mods, fetching, instantiating, nativeInit>>

\* The body of analyzePosition from call run.k on, up to its next await or
\* its end; from is the run as it was when it got the event loop.
RECURSIVE RunAnalysis(_, _)
RunAnalysis(run, from) ==
    IF run.k > Len(AnalysisCalls) THEN Settle(assemble(run), from)
    ELSE \E a \in StageAnswers(AnalysisCalls[run.k], run.position) :
         \E s \in {stage(AnalysisCalls[run.k], run.fen, run.depth, a)} :
         \E next \in {advance(run, s, a)} :
            IF s.outcome = "throw" THEN Settle(caught(next, s), from)
            ELSE IF rejects(s) THEN Settle(invalidFen(next), from)
            ELSE IF s.op \in AnalysisAwaits THEN Suspend(next, from)
            ELSE RunAnalysis(next, from)

\* analyzePosition(fen, depth) is called, or a suspended run resumes.
AnalyzePosition ==
    /\ Cardinality(regions) < MaxRegions
    /\ \E run \in inFlight \cup
                  (IF Cardinality(inFlight) < MaxPending THEN NewRuns ELSE {}) :
          RunAnalysis(run, run)

\* ------------------------------------------------------- specification
Next ==
    \/ LoadModule
    \/ ScriptSettles
    \/ InstantiateSettles
    \/ InitEngine
    \/ Cleanup
    \/ SetPosition
    \/ GetBestMove
    \/ MakeMove
    \/ UndoMove
    \/ GetLegalMoves
    \/ IsCheckmate
    \/ IsStalemate
    \/ IsInCheck
    \/ EvaluatePosition
    \/ GetCurrentFen
    \/ AnalyzePosition

Spec == Init /\ [][Next]_vars

\* The three lifecycle states of the binding.
EngineState ==
    IF isInitialized THEN "Initialized"
    ELSE IF isReady THEN "Loaded-NotInitialized"
    ELSE "Unloaded"

TypeOK ==
    /\ variant \in Variants
    /\ module \in 0..Len(mods)
    /\ isReady \in BOOLEAN /\ isInitialized \in BOOLEAN
    /\ wrappers \in 0..Len(mods)
    /\ memHelpers \in -1..Len(mods)
    /\ decoder \in 0..Len(mods)
    /\ Len(mods) <= MaxModules
    /\ fetching \in 0..MaxPending /\ instantiating \in 0..MaxPending
    /\ Cardinality(regions) <= MaxRegions
    /\ nativeInit \in BOOLEAN
    /\ Cardinality(inFlight) <= MaxPending
    /\ last.op = "analyzePosition" /\ last.outcome = "return"
           => last.result.keys \subseteq ReportKeys

\* ================================================================ claims
CallSurfaceOps ==
    {"setPosition", "getBestMove", "makeMove", "undoMove", "getLegalMoves",
     "isCheckmate", "isStalemate", "isInCheck", "evaluatePosition",
     "getCurrentFen"}

BufferOps == {"getBestMove", "getLegalMoves", "getCurrentFen"}

\* C1: a Call Surface operation invoked while the engine is not Initialized
\* fails with EngineNotReady, invokes no native function and allocates no
\* scratch region. (A Call Surface step leaves isInitialized as it found it,
\* and every other step overwrites last.op.)
C1_NotReadyFailsWithoutNativeCall ==
    (last.op \in CallSurfaceOps /\ ~isInitialized) =>
        /\ last.outcome = "throw"
        /\ last.error = "EngineNotReady"
        /\ last.calls = <<>>
        /\ last.acquired = {}
        /\ regions = {}

C1_Witness ==
    /\ isReady /\ ~isInitialized
    /\ last.op = "getLegalMoves"
    /\ last.error = "EngineNotReady"

\* C2: Initialized is never reached without a successful loadModule
\* (isInitialized implies isReady and a bound module), and init() called
\* while Unloaded fails with NotLoaded without invoking the native init.
C2_InitializedOnlyAfterLoad ==
    /\ isInitialized => (isReady /\ module # 0 /\ wrappers # 0)
    /\ (last.op = "init" /\ ~isReady) =>
           /\ last.outcome = "throw"
           /\ last.error = "NotLoaded"
           /\ last.calls = <<>>

C2_Witness ==
    /\ last.op = "init" /\ last.error = "NotLoaded"
    /\ ~isReady /\ ~isInitialized
    /\ instantiating = 1

\* C3: when init() runs with the module loaded and the native init returns
\* a non-success status, init() reports failure and EngineState is what it
\* was before the call, also when the engine was already Initialized.
C3_FailedInitKeepsState ==
    [][(isReady /\ last'.op = "init" /\ last'.outcome = "return"
          /\ ~last'.native.ok)
       => (/\ last'.result = Bool(FALSE)
           /\ isInitialized' = isInitialized
           /\ isReady' = isReady)]_vars

C5_DecodeStaysInsideRegion ==
    (last.op \in BufferOps /\ last.maxRead >= 0) => last.maxRead < last.cap

\* C6: cleanup() returns normally whatever the native teardown does, and
\* leaves the engine not Initialized.
C6_CleanupNeverFails ==
    last.op = "cleanup" => (last.outcome = "return" /\ ~isInitialized)

\* C7: a cleanup() that directly follows a cleanup() changes no state and
\* invokes no native teardown, so two calls in a row equal one.
C7_CleanupIdempotent ==
    [][(last.op = "cleanup" /\ last'.op = "cleanup")
       => (/\ isInitialized' = isInitialized
           /\ isReady' = isReady
           /\ last'.calls = <<>>)]_vars

\* C8: a loadModule that fails while the binding is Unloaded leaves it
\* exactly Unloaded: no module handle and no bound wrappers are retained.
C8_FailedLoadLeavesUnloaded ==
    (/\ last.op = "loadModule" /\ last.outcome = "return"
     /\ last.result = Bool(FALSE) /\ ~isReady)
    => (module = 0 /\ wrappers = 0 /\ memHelpers = 0 /\ decoder = 0)

\* C9: once a loadModule has succeeded, a further loadModule call leaves
\* the module handle, the bound wrappers and EngineState unchanged.
C9_LoadIsOneTime ==
    [][(isReady /\ last'.op = "loadModule")
       => (/\ module' = module
           /\ wrappers' = wrappers
           /\ memHelpers' = memHelpers
           /\ decoder' = decoder
           /\ isReady' = isReady
           /\ isInitialized' = isInitialized)]_vars

\* C10 as stated: getBestMove returns absent exactly when the native status
\* indicates failure or the native token is "0000", and any token it returns
\* is well-formed coordinate notation.
C10_AbsentIffFailureOrSentinel ==
    (isInitialized /\ last.op = "getBestMove" /\ last.outcome = "return") =>
        /\ (last.result = Null) <=>
               (~last.native.ok \/ last.native.text = NoMove)
        /\ last.result # Null => WellFormedMove(last.result.val)

\* C10 amended: when getBestMove returns in state Initialized, it returns
\* absent exactly when the native status indicates failure, the decoded
\* token is empty, or the token is "0000"; otherwise it returns the decoded
\* token unchanged, whatever its form.
C10_AbsentIffFailureEmptyOrSentinel ==
    (isInitialized /\ last.op = "getBestMove" /\ last.outcome = "return") =>
        /\ (last.result = Null) <=>
               (\/ ~last.native.ok
                \/ last.native.text = <<>>
                \/ last.native.text = NoMove)
        /\ last.result # Null => last.result = Str(last.native.text)

C10_Witness ==
    /\ isInitialized
    /\ last.op = "getBestMove" /\ last.outcome = "return"
    /\ last.native.ok /\ last.native.text = NoMove
    /\ last.result = Null

\* The native calls of a step that enter the engine (not the allocator).
EngineCalls(calls) == SelectSeq(calls, LAMBDA c : c \notin {"_malloc", "_free"})

\* C11: whenever the setPosition call of analyzePosition reports failure
\* (chess_set_position returned a status that is not success), the run
\* returns a report that carries the error "Invalid FEN position" and no
\* success flag, and chess_set_position is the only native call it issued:
\* no query entry point is entered and no scratch region is allocated.
C11_RejectedFenShortCircuits ==
    (/\ last.op = "analyzePosition" /\ last.outcome # "pending"
     /\ last.calls # <<>> /\ ~last.native.ok
     /\ ~(last.error = "NativeError" /\ Len(last.calls) = 1)) =>
        /\ last.outcome = "return"
        /\ last.result.keys = {"error"}
        /\ last.result.fields["error"] = Str("Invalid FEN position")
        /\ last.calls = <<"chess_set_position">>
        /\ last.acquired = {}

C11_Witness ==
    /\ isInitialized
    /\ last.op = "analyzePosition" /\ last.outcome = "return"
    /\ last.calls = <<"chess_set_position">>
    /\ last.result.fields["error"] = Str("Invalid FEN position")

\* C12: analyzePosition never lets a fault escape. Whatever the engine state
\* and whichever call faults (EngineNotReady, AllocationFailed,
\* DecodingUnavailable, a missing allocator, an exception raised by a native
\* entry point), the run completes by returning a report; the report has an
\* error field exactly when a fault was caught or the descriptor was
\* rejected, and success = true exactly otherwise, never both or neither.
C12_AnalysisAlwaysReports ==
    (last.op = "analyzePosition" /\ last.outcome # "pending") =>
        /\ last.outcome = "return"
        /\ last.result.kind = "report"
        /\ ("error" \in last.result.keys) # ("success" \in last.result.keys)
        /\ ("error" \in last.result.keys) <=>
               (last.error # "" \/ ~last.native.ok)
        /\ "success" \in last.result.keys =>
               last.result.fields["success"] = Bool(TRUE)

C12_Witness ==
    /\ last.op = "analyzePosition" /\ last.outcome = "return"
    /\ last.error = "AllocationFailed"
    /\ "chess_is_in_check" \in {last.calls[i] : i \in 1..Len(last.calls)}
    /\ last.result.keys = {"error"}

\* The characters that separate tokens in the legal-moves payload of this
\* generation, and a payload made of nothing else.
Delimiters == IF variant = "buffer" THEN WhiteSpace ELSE {","}

Blank(text) == \A i \in 1..Len(text) : text[i] \in Delimiters

\* C13: in state Initialized, the sequence getLegalMoves returns never
\* contains an empty token, whatever the payload (empty, only delimiters,
\* leading, trailing or repeated delimiters); it is the empty sequence when
\* the native call reports failure or the payload is blank.
C13_NoEmptyToken ==
    (isInitialized /\ last.op = "getLegalMoves" /\ last.outcome = "return") =>
        /\ last.result.kind = "array"
        /\ \A i \in 1..Len(last.result.val) : last.result.val[i] # <<>>
        /\ (~last.native.ok \/ Blank(last.native.text)) =>
               last.result.val = <<>>

C13_Witness ==
    /\ isInitialized
    /\ last.op = "getLegalMoves" /\ last.outcome = "return"
    /\ last.native.ok
    /\ last.native.text # <<>> /\ Blank(last.native.text)
    /\ last.result = List(<<>>)

\* C14: when _malloc returns the null handle (the step called _malloc and
\* acquired no region), a buffer-strategy operation (getBestMove,
\* getLegalMoves, getCurrentFen) fails at once with AllocationFailed: the
\* engine entry point is not invoked, nothing is decoded, and _free is not
\* called on the null handle.
C14_NullHandleFailsAtOnce ==
    (/\ variant = "buffer" /\ last.op \in BufferOps
     /\ last.calls # <<>> /\ last.acquired = {}) =>
        /\ last.outcome = "throw"
        /\ last.error = "AllocationFailed"
        /\ last.calls = <<"_malloc">>
        /\ last.released = {}
        /\ last.maxRead = -1

C14_Witness ==
    /\ variant = "buffer" /\ isInitialized
    /\ last.op = "getLegalMoves"
    /\ last.calls = <<"_malloc">>
    /\ last.error = "AllocationFailed"

\* C15: on every run of analyzePosition in which setPosition succeeds and
\* no fault occurs, the engine entry points are entered in exactly this
\* order, each exactly once: set_position, get_best_move,
\* evaluate_position, get_legal_moves, is_checkmate, is_stalemate,
\* is_in_check, get_fen; the report is put together after the final
\* descriptor read (no entry point is entered after get_fen).
C15_AnalysisCallOrder ==
    (/\ last.op = "analyzePosition" /\ last.outcome = "return"
     /\ last.native.ok /\ last.error = "") =>
        EngineCalls(last.calls) =
            <<"chess_set_position", "chess_get_best_move",
              "chess_evaluate_position", "chess_get_legal_moves",
              "chess_is_checkmate", "chess_is_stalemate", "chess_is_in_check",
              "chess_get_fen">>

C15_Witness ==
    /\ variant = "buffer"
    /\ last.op = "analyzePosition" /\ last.outcome = "return"
    /\ "success" \in last.result.keys
    /\ last.result.fields["bestMove"] = Str(E2E4)
    /\ Len(last.calls) > Len(AnalysisCalls)

\* C16: analyzePosition is atomic with respect to the other callers of the
\* event loop. With analyzePosition requests, loads and Call Surface calls
\* issued by host callbacks in any order, no run of analyzePosition is ever
\* suspended between its set_position and its get_fen: each run that got
\* the event loop has settled before any other callback runs, so no native
\* call of another request falls between its calls.
C16_AnalysisNeverSuspended ==
    /\ inFlight = {}
    /\ last.op = "analyzePosition" => last.outcome = "return"

C16_Witness ==
    /\ fetching + instantiating > 0
    /\ last.op = "analyzePosition"
    /\ "success" \in last.result.keys
    /\ Len(EngineCalls(last.calls)) = Len(AnalysisCalls)

\* C17: only the Lifecycle Controller mutates EngineState. Every step of a
\* Call Surface operation or of analyzePosition, however it ends, leaves
\* the load flag, the initialized flag and the module handle as they were;
\* the steps that change them are steps of loadModule, init and cleanup.
C17_OnlyLifecycleMutatesState ==
    [][last'.op \in CallSurfaceOps \cup {"analyzePosition"} =>
           UNCHANGED <<isReady, isInitialized, module>>]_vars

C17_Witness ==
    /\ isReady /\ isInitialized /\ module # 0
    /\ last.op = "analyzePosition"
    /\ last.error = "NativeError"
    /\ Len(last.calls) > 1

\* C18: a missing decoding helper is a binding misconfiguration, not a
\* per-call condition. A module that exposes no UTF-8 decoding helper is
\* refused when its symbols are bound (loadModule does not report Ready with
\* the decoder bound to such a module), and no later Call Surface operation
\* fails with DecodingUnavailable at its decode step.
C18_DecodingCheckedAtBind ==
    /\ (variant = "buffer" /\ isReady /\ decoder # 0) =>
           mods[decoder].decode # "none"
    /\ last.error = "DecodingUnavailable" => last.op = "loadModule"

\* C19: host and native lifecycle stay in step. In every reachable state,
\* after any sequence of loadModule, init, cleanup and Call Surface calls
\* (a repeated loadModule and a native teardown that raises included),
\* isInitialized is true only if the native module the wrappers are bound
\* to has had its init entry point return success with no teardown invoked
\* on it since.
C19_HostAndNativeInStep == isInitialized => nativeInit

\* C20: analyzePosition called while the engine is not Initialized does not
\* raise EngineNotReady to its caller. It returns a report whose error
\* field is the not-initialized message and that has no success flag,
\* having entered no native function and allocated no scratch region.
C20_NotInitializedIsReported ==
    (~isInitialized /\ last.op = "analyzePosition") =>
        /\ last.outcome = "return"
        /\ last.result.keys = {"error"}
        /\ last.result.fields["error"] = Str("Engine not initialized")
        /\ last.calls = <<>>
        /\ last.acquired = {}
        /\ regions = {}

C20_Witness ==
    /\ isReady /\ ~isInitialized
    /\ last.op = "analyzePosition" /\ last.outcome = "return"
    /\ last.error = "EngineNotReady"

====
